---- MODULE Spec2Model ----
(***************************************************************************)
(* Model of the wyze-stream-analysis front end: the App controller (active *)
(* source, detection toggle, count series), the VideoPlayer connection     *)
(* state machine and the PeopleDetection inference loop.                   *)
(*                                                                         *)
(* Every React event handler, timer callback and promise continuation is   *)
(* one action: the handler's state updates, the re-render they cause and   *)
(* the effect cleanups / effect bodies that the re-render runs are part of *)
(* the same action (JavaScript runs them to completion before the next     *)
(* task is taken from the queue).                                          *)
(***************************************************************************)
EXTENDS Integers, Sequences, FiniteSets, TLC

(***************************************************************************)
(* Bounds of the model.                                                    *)
(***************************************************************************)
Epoch == 1000000          \* Date.now() when the page is constructed
MaxTime == 100            \* the clock of Spec runs from Epoch to Epoch + MaxTime
MaxCount == 1             \* raw person counts reported by a tick: 0..MaxCount
MaxTimers == 2            \* window.setTimeout callbacks pending at once
MaxHls == 2               \* Hls instances alive at once
MaxLoads == 2             \* model loads running at once
MaxLoops == 2             \* detectPeople loops alive at once
MaxPos == 4               \* playback positions 0..MaxPos, in units of 250 ms
MaxNameLen == 2           \* tokens in the name field of the add-stream form
MaxUrlLen == 4            \* tokens in its URL field
MaxReloads == 2           \* startLoad / recoverMediaError calls per Hls instance
AggHorizon == 250         \* the clock of SpecAgg runs to Epoch + AggHorizon
AggSpacing == 1000        \* spacing of the samples SpecAgg starts with
GraphHorizon == 2000      \* the clock of SpecGraph runs to Epoch + GraphHorizon

(***************************************************************************)
(* Program constants.                                                      *)
(***************************************************************************)
JITTER_MS == 50           \* dedup window of handlePeopleCountChange
MAX_POINTS == 300         \* capacity of peopleCountHistory

Abs(x) == IF x < 0 THEN -x ELSE x

Min2(a, b) == IF a < b THEN a ELSE b

\* Array.prototype.slice(-n): the last n elements (all of them when shorter)
SliceLast(s, n) == IF Len(s) <= n THEN s ELSE SubSeq(s, Len(s) - n + 1, Len(s))

\* Array.prototype.slice(0, -1)
DropLast(s) == IF Len(s) = 0 THEN s ELSE SubSeq(s, 1, Len(s) - 1)

VARIABLES
  now,                       \* the value Date.now() returns
  \* ---- App (LiveIndicator.tsx:19-423)
  videos,                    \* list of source ids
  videosLoading,             \* api.getVideos() of loadVideos has not settled yet
  activeVideoId,
  peopleCount,
  isPeopleDetectionEnabled,
  peopleCountHistory,        \* sequence of [timestamp, count]
  detectionSessionId,        \* 0 for 'initial', else the ms of 'session_<ms>'
  arrivals,                  \* history variable: what peopleCountHistory would be
                             \* with no capacity (same resets, same dedup)
  \* ---- VideoPlayer (VideoPlayer.tsx:21-404)
  connecting, loading, error, errorDetails,
  timeoutRef,                \* 0 (null) or the id of the timer last created
  timers,                    \* pending window.setTimeout callbacks
  hlsRef,                    \* 0 (null) or the id of an Hls instance
  hlsObjs,                   \* Hls instances created and not destroyed
  hlsSupport,                \* what the browser offers: "mse", "native", "neither"
  videoSrc,                  \* media held by the <video> element
  videoHls,                  \* id of the Hls instance attached to it, or 0
  videoReady,                \* video.readyState = 4
  videoPlaying,              \* !paused && !ended && currentTime > 0
  \* ---- PeopleDetection (PeopleDetection.tsx:18-272)
  pdMounted,                 \* the component is rendered by VideoPlayer
  model,                     \* 0 (null) or 1 (a loaded cocoSsd model)
  isLoading, modelLoadError,
  detections,                \* the stored detection set
  canvas,                    \* what is drawn on the overlay surface
  showOverlay,               \* the showOverlay prop PeopleDetection is given
  lastOverlayOp,             \* history variable: "hide" / "show" when the last
                             \* thing done to the overlay was a change of
                             \* showOverlay, "none" after a new detection set
  requestRef,                \* 0 (null) or the loop whose rAF handle it holds
  loads,                     \* running initTensorFlowAndLoadModel() calls
  loops,                     \* detectPeople loops: loop id -> record
  \* ---- playback position (LiveIndicator.tsx:25, VideoPlayer.tsx:225-267)
  currentTime,               \* App's currentTime state, in units of 250 ms
  videoTime,                 \* videoElement.currentTime, in the same units
  lastRelay,                 \* history variable: the flags and the media
                             \* under which onTimeUpdate was last called
  lastSeek,                  \* history variable: the media the element held
                             \* when the seek-sync effect last moved it
  \* ---- AddStreamModal (AddStreamModal.tsx:10-13, LiveIndicator.tsx:32)
  isAddStreamModalOpen,
  streamName, streamUrl,     \* the form fields, as sequences of tokens
  modalError,                \* the modal's validation error, "" for none
  \* ---- captureSnapshot (VideoPlayer.tsx:40-63)
  snapshot,                  \* history variable: what the last call returned
                             \* and what the element held when it was made
  \* ---- PeopleDetectionGraph (AddStreamModal.tsx:183-233)
  graph                      \* chart: chart.data as last set (labels, counts);
                             \* intervals: the window.setInterval timers that
                             \* are active; intervalRef: intervalRef.current

appVars == <<videos, videosLoading, activeVideoId, peopleCount,
             isPeopleDetectionEnabled, peopleCountHistory, detectionSessionId,
             arrivals>>

vpVars == <<connecting, loading, error, errorDetails, timeoutRef, timers,
            hlsRef, hlsObjs, hlsSupport, videoSrc, videoHls, videoReady,
            videoPlaying>>

pdVars == <<pdMounted, model, isLoading, modelLoadError, detections, canvas, showOverlay, lastOverlayOp,
            requestRef, loads, loops>>

posVars == <<currentTime, videoTime, lastRelay, lastSeek>>

modalVars == <<isAddStreamModalOpen, streamName, streamUrl, modalError>>

vars == <<now, appVars, vpVars, pdVars, posVars, modalVars, snapshot, graph>>

Counts == 0..MaxCount

(***************************************************************************)
(* App.handlePeopleCountChange: the functional updater passed to           *)
(* setPeopleCountHistory, with Date.now() = t.                             *)
(***************************************************************************)
IsDuplicateMutantInclusive(prev, t) ==
  /\ Len(prev) > 0
  /\ Abs(t - prev[Len(prev)].timestamp) <= JITTER_MS

IsDuplicate(prev, t) ==
  /\ Len(prev) > 0
  /\ Abs(t - prev[Len(prev)].timestamp) < JITTER_MS

EvictMutantKeepOldest(history) ==
  IF Len(history) > MAX_POINTS THEN SubSeq(history, 1, MAX_POINTS) ELSE history

EvictMutantOffByOne(history) ==
  IF Len(history) > MAX_POINTS + 1 THEN SliceLast(history, MAX_POINTS) ELSE history

Evict(history) ==
  IF Len(history) > MAX_POINTS THEN SliceLast(history, MAX_POINTS) ELSE history

HistoryUpdaterMutantFirstWins(prev, t, count) ==
  LET newPoint == [timestamp |-> t, count |-> count]
  IN  IF IsDuplicate(prev, t)
        THEN prev
        ELSE Evict(prev \o <<newPoint>>)

HistoryUpdater(prev, t, count) ==
  LET newPoint == [timestamp |-> t, count |-> count]
  IN  IF IsDuplicate(prev, t)
        THEN DropLast(prev) \o <<newPoint>>
        ELSE Evict(prev \o <<newPoint>>)

\* the same stream of stored samples with the capacity check left out
ArrivalsUpdater(prev, t, count) ==
  LET newPoint == [timestamp |-> t, count |-> count]
  IN  IF IsDuplicate(prev, t)
        THEN DropLast(prev) \o <<newPoint>>
        ELSE prev \o <<newPoint>>

\* handlePeopleCountChange(count) of the render in which
\* isPeopleDetectionEnabled had the value `enabled` (the useCallback closure)
HandlePeopleCountChange(count, enabled) ==
  /\ peopleCount' = count
  /\ IF enabled
       THEN /\ peopleCountHistory' = HistoryUpdater(peopleCountHistory, now', count)
            /\ arrivals' = ArrivalsUpdater(arrivals, now', count)
       ELSE UNCHANGED <<peopleCountHistory, arrivals>>

(***************************************************************************)
(* Video sources.  A source is named by its id; a file source plays the    *)
(* file of that name, a stream source (isHlsStream && hlsUrl) its URL.     *)
(***************************************************************************)
FileIds == {"football"}

StreamIds == {"stream1"}

\* ids of the streams added from sampleStreams (VideoPlayer.tsx:270-275)
SampleIds == {"sample1"}

\* what api.getVideos() resolves to
ApiVideos == <<"football">>

Range(s) == {s[i] : i \in 1..Len(s)}

\* App.getCurrentVideoSource: videos.find(v => v.id === activeVideoId)
CurrentVideoSource(vs, id) == IF id \in Range(vs) THEN id ELSE "undefined"

VideoSource == CurrentVideoSource(videos, activeVideoId)

\* videoSource?.isHlsStream && videoSource?.hlsUrl
IsHls(src) == src \in StreamIds \cup SampleIds

\* the media a source resolves to: videoSource?.filename || 'football.mp4'
\* for a file, the stream URL for a stream
MediaOf(src) == IF src = "undefined" THEN "football" ELSE src

\* the smallest id in 1..n+1 that no record of set S carries
FreshId(S) == CHOOSE i \in 1..(Cardinality(S) + 1) :
                 /\ \A r \in S : r.id # i
                 /\ \A j \in 1..(i - 1) : \E r \in S : r.id = j

(***************************************************************************)
(* PeopleDetection.  A loop is one chain of detectPeople() calls started   *)
(* by one run of the detection-loop effect.  pc says where the chain is:   *)
(*   "raf"      requestAnimationFrame(detectPeople) is pending             *)
(*   "inflight" awaiting model.detect(video)                               *)
(*   "timer"    the 500 ms setTimeout is pending                           *)
(*   "none"     the slot holds no loop                                     *)
(* orphan: the component instance that started it has been unmounted, so   *)
(* its canvasRef.current is null.  sess: detectionSessionId of the render  *)
(* that started it.  enabled: isPeopleDetectionEnabled captured by the     *)
(* onPeopleCountChange closure of that render.  failed: the pending 500 ms *)
(* timer was set after a rejected model.detect call (which the catch       *)
(* logged).                                                                *)
(***************************************************************************)
LoopIds == 1..MaxLoops

NoLoop == [pc |-> "none", orphan |-> FALSE, sess |-> 0, enabled |-> FALSE,
           failed |-> FALSE]

FreeLoops(ls) == {l \in LoopIds : ls[l].pc = "none"}

\* cancelAnimationFrame(requestRef.current): the handle names the last
\* rAF request of loop `ref`; cancelling it ends that loop if the request
\* is still pending and does nothing otherwise
CancelFrame(ls, ref) ==
  IF ref # 0 /\ ls[ref].pc = "raf" /\ ~ls[ref].orphan
    THEN [ls EXCEPT ![ref] = NoLoop]
    ELSE ls

\* one synchronous run of detectPeople() up to its first suspension point
\* (PeopleDetection.tsx:111-148), for a loop whose canvas is mounted
TickPc(ready, playing) ==
  IF ~ready THEN "raf"
  ELSE IF playing THEN "inflight"
  ELSE "timer"

\* the detection-loop effect body when it passes its guard
\* (PeopleDetection.tsx:105-151): detectPeople() is called once, directly
StartLoop(ls, ready, playing, sess) ==
  LET l == CHOOSE k \in FreeLoops(ls) : \A j \in FreeLoops(ls) : k <= j
  IN  [ls EXCEPT ![l] = [pc |-> TickPc(ready, playing), orphan |-> FALSE,
                         sess |-> sess, enabled |-> TRUE,
                         failed |-> FALSE]]

\* requestRef.current after a loop was started on top of reference `ref`
RefAfterStart(ls0, ls1, ref) ==
  LET started == {l \in LoopIds : ls0[l].pc = "none" /\ ls1[l].pc = "raf"}
  IN  IF started = {} THEN ref ELSE CHOOSE l \in started : TRUE

\* initTensorFlowAndLoadModel() called by the model-load effect
\* (PeopleDetection.tsx:35-46, 89-92): runs up to its first await
StartLoad(ld) ==
  ld \cup {[id |-> FreshId(ld), stage |-> "gpu", isMounted |-> TRUE]}

\* cleanup of the model-load effect: isMounted = false
\* (PeopleDetection.tsx:95-96)
LoadCleanup(ld) == {[t EXCEPT !.isMounted = FALSE] : t \in ld}

\* drawDetections(dets): clearRect, then one box per detection unless the
\* overlay is off (PeopleDetection.tsx:190-235)
DrawDetections(show, dets) == IF show THEN dets ELSE <<>>

\* the effect on [isEnabled, showOverlay, detections]: what the surface
\* holds after it, given what it held (PeopleDetection.tsx:238-248)
CanvasEffectMutantNoRedraw(en, show, dets, cv) ==
  IF ~en \/ ~show THEN <<>> ELSE cv

\* the same effect without the showOverlay test
CanvasEffectMutantDrawsHidden(en, show, dets, cv) ==
  IF ~en THEN <<>>
  ELSE IF Len(dets) > 0 THEN dets ELSE cv

CanvasEffect(en, show, dets, cv) ==
  IF ~en \/ ~show THEN <<>>
  ELSE IF Len(dets) > 0 THEN DrawDetections(show, dets)
  ELSE cv

\* the JSX condition under which VideoPlayer renders <PeopleDetection>
\* (VideoPlayer.tsx:393)
MountCondMutantIgnoreLoading(src, err, conn, load) ==
  IsHls(src) /\ err = "none" /\ ~conn

MountCond(src, err, conn, load) ==
  IsHls(src) /\ err = "none" /\ ~conn /\ ~load

\* PeopleDetection is removed from the tree: every effect cleanup runs
\* (PeopleDetection.tsx:95-101, 154-159); loops that survive lose their canvas
PdUnmount ==
  /\ pdMounted' = FALSE
  /\ model' = 0
  /\ isLoading' = TRUE
  /\ modelLoadError' = FALSE
  /\ detections' = <<>>
  /\ canvas' = <<>>
  /\ showOverlay' = showOverlay
  /\ lastOverlayOp' = "none"
  /\ requestRef' = 0
  /\ loads' = LoadCleanup(loads)
  /\ loops' = [l \in LoopIds |->
                 LET r == CancelFrame(loops, requestRef)[l]
                 IN  IF r.pc = "none" THEN r ELSE [r EXCEPT !.orphan = TRUE]]

\* a fresh PeopleDetection instance is mounted: useState initial values
\* (PeopleDetection.tsx:24-29), then the effects run for the first time
PdMount ==
  /\ pdMounted' = TRUE
  /\ model' = 0
  /\ isLoading' = TRUE
  /\ modelLoadError' = FALSE
  /\ detections' = <<>>
  /\ canvas' = <<>>
  /\ showOverlay' = showOverlay
  /\ lastOverlayOp' = "none"
  /\ requestRef' = 0
  /\ IF isPeopleDetectionEnabled'
       THEN Cardinality(loads) < MaxLoads /\ loads' = StartLoad(loads)
       ELSE loads' = loads
  /\ loops' = loops

\* isEnabled goes true -> false on a mounted instance
PdDisable ==
  /\ loads' = LoadCleanup(loads)
  /\ loops' = CancelFrame(loops, requestRef)
  /\ requestRef' = 0
  /\ canvas' = CanvasEffect(FALSE, showOverlay, detections, canvas)
  /\ UNCHANGED <<pdMounted, showOverlay, lastOverlayOp, model, isLoading, modelLoadError, detections>>

\* isEnabled goes false -> true on a mounted instance
PdEnable ==
  LET ls0 == CancelFrame(loops, requestRef)   \* cleanup, lines 95-100
      ls1 == IF model # 0
               THEN StartLoop(ls0, videoReady', videoPlaying', detectionSessionId')
               ELSE ls0
  IN  /\ Cardinality(loads) < MaxLoads
      /\ model # 0 => FreeLoops(ls0) # {}
      /\ loads' = StartLoad(LoadCleanup(loads))
      /\ isLoading' = TRUE
      /\ modelLoadError' = FALSE
      /\ loops' = ls1
      /\ requestRef' = RefAfterStart(ls0, ls1, 0)
      /\ canvas' = CanvasEffect(TRUE, showOverlay, detections, canvas)
      /\ UNCHANGED <<pdMounted, showOverlay, lastOverlayOp, model, detections>>

\* what a re-render of VideoPlayer does to PeopleDetection, given the new
\* App and VideoPlayer state
PdReact ==
  LET willMount == MountCond(CurrentVideoSource(videos', activeVideoId'),
                             error', connecting', loading')
  IN  IF ~pdMounted /\ ~willMount THEN UNCHANGED pdVars
      ELSE IF pdMounted /\ ~willMount THEN PdUnmount
      ELSE IF ~pdMounted /\ willMount THEN PdMount
      ELSE IF isPeopleDetectionEnabled /\ ~isPeopleDetectionEnabled' THEN PdDisable
      ELSE IF ~isPeopleDetectionEnabled /\ isPeopleDetectionEnabled' THEN PdEnable
      ELSE UNCHANGED pdVars

(***************************************************************************)
(* VideoPlayer.                                                            *)
(* A timer is [id, src, kind]: src is the source captured by the closure,  *)
(* kind "effect" for the callback of the source-change effect and "retry"  *)
(* for the callback of the Retry Connection button.  An Hls instance is    *)
(* [id, src, handlers, reloads, recovers, failed]: handlers says whether   *)
(* MANIFEST_PARSED and ERROR listeners were subscribed, reloads counts     *)
(* hls.startLoad() calls and recovers hls.recoverMediaError() calls made   *)
(* by the ERROR listener, failed is the fatal error the instance stopped   *)
(* on with no listener to receive it ("none", "denied" for a network error *)
(* with HTTP 403, "fatal" for any other).  videoSrc is "none" (no src), "empty"        *)
(* (src = '') or the media of a source.                                    *)
(***************************************************************************)
IsMedia(m) == m \notin {"none", "empty"}

\* hls.destroy(): the instance is gone and, if it was attached to the
\* <video> element, the element is left without media
DestroyHls(id) ==
  /\ hlsObjs' = {h \in hlsObjs : h.id # id}
  /\ IF id # 0 /\ videoHls = id
       THEN videoSrc' = "none" /\ videoHls' = 0 /\ videoReady' = FALSE
       ELSE UNCHANGED <<videoSrc, videoHls, videoReady>>

\* the source-change effect: cleanup of the previous run, then the body up
\* to window.setTimeout (VideoPlayer.tsx:66-97, 199-209); the cleanup of
\* the video-events effect pauses the element (VideoPlayer.tsx:251-257).
\* setIsPeopleDetectionEnabled (line 90) is bound to nothing in VideoPlayer:
\* the flag PeopleDetection receives is App's, which only App's handlers set,
\* so the call changes no variable here.
SourceChangeEffectMutantKeepError(src) ==
  LET kept == {t \in timers : t.id # timeoutRef}
      id == FreshId(kept)
  IN  /\ timers' = kept \cup {[id |-> id, src |-> src, kind |-> "effect"]}
      /\ timeoutRef' = id
      /\ DestroyHls(hlsRef)
      /\ hlsRef' = 0
      /\ connecting' = TRUE
      /\ loading' = TRUE
      /\ UNCHANGED <<error, errorDetails>>
      /\ videoPlaying' = FALSE
      /\ UNCHANGED hlsSupport

SourceChangeEffect(src) ==
  LET kept == {t \in timers : t.id # timeoutRef}
      id == FreshId(kept)
  IN  /\ timers' = kept \cup {[id |-> id, src |-> src, kind |-> "effect"]}
      /\ timeoutRef' = id
      /\ DestroyHls(hlsRef)
      /\ hlsRef' = 0
      /\ connecting' = TRUE
      /\ loading' = TRUE
      /\ error' = "none"
      /\ errorDetails' = "none"
      /\ videoPlaying' = FALSE
      /\ UNCHANGED hlsSupport

\* the re-render of VideoPlayer after App changed its state
VpReact ==
  LET src == CurrentVideoSource(videos', activeVideoId')
  IN  IF src # VideoSource THEN SourceChangeEffect(src) ELSE UNCHANGED vpVars

\* new Hls(...); loadSource; attachMedia; hlsRef.current = hls
AttachNewHls(src, withHandlers) ==
  LET id == FreshId(hlsObjs)
  IN  /\ Cardinality(hlsObjs) < MaxHls
      /\ hlsObjs' = hlsObjs \cup
                      {[id |-> id, src |-> src, handlers |-> withHandlers,
                        reloads |-> 0, recovers |-> 0, failed |-> "none"]}
      /\ hlsRef' = id
      /\ videoSrc' = MediaOf(src)
      /\ videoHls' = id
      /\ videoReady' = FALSE
      /\ videoPlaying' = FALSE

\* videoElement.src = url; videoElement.load()
LoadMedia(m) ==
  /\ videoSrc' = m
  /\ videoHls' = 0
  /\ videoReady' = FALSE
  /\ videoPlaying' = FALSE
  /\ UNCHANGED <<hlsRef, hlsObjs>>

\* callback of the connection timer of the source-change effect
\* (VideoPlayer.tsx:97-197)
EffectTimerBody(src) ==
  /\ connecting' = FALSE
  /\ IF IsHls(src)
       THEN CASE hlsSupport = "mse" ->
                   /\ AttachNewHls(src, TRUE)
                   /\ UNCHANGED <<error, errorDetails>>
              [] hlsSupport = "native" ->
                   /\ LoadMedia(MediaOf(src))
                   /\ UNCHANGED <<error, errorDetails>>
              [] OTHER ->
                   /\ error' = "Browser Not Supported"
                   /\ errorDetails' = "Your browser does not support HLS streaming"
                   /\ UNCHANGED <<videoSrc, videoHls, videoReady, videoPlaying,
                                  hlsRef, hlsObjs>>
       ELSE /\ LoadMedia(MediaOf(src))
            /\ UNCHANGED <<error, errorDetails>>

\* callback of the timer started by Retry Connection (VideoPlayer.tsx:359-374)
RetryTimerBody(src) ==
  /\ connecting' = FALSE
  /\ UNCHANGED <<error, errorDetails>>
  /\ IF IsHls(src) /\ hlsSupport = "mse"
       THEN AttachNewHls(src, FALSE)
       ELSE LoadMedia(IF IsHls(src) THEN "football" ELSE MediaOf(src))

(***************************************************************************)
(* Playback position.  Positions are counted in units of 250 ms; the       *)
(* seek-sync effect moves the element when it is more than 0.5 s away      *)
(* from App's currentTime.                                                 *)
(***************************************************************************)
SEEK_TOLERANCE == 2       \* Math.abs(...) > 0.5

NoRelay == [called |-> FALSE, connecting |-> FALSE, loading |-> FALSE,
            failed |-> FALSE, media |-> "none"]

\* the seek-sync effect (VideoPlayer.tsx:260-267), which runs after a
\* render in which one of its dependencies changed; ct is App's
\* currentTime after the handler, vt the element's position after it
PosReact(ct, vt) ==
  LET src == CurrentVideoSource(videos', activeVideoId')
      changed == <<ct, connecting', loading', error', src>>
                   # <<currentTime, connecting, loading, error, VideoSource>>
      skip == connecting' \/ loading' \/ error' # "none" \/ IsHls(src)
  IN  /\ currentTime' = ct
      /\ IF changed /\ ~skip /\ Abs(vt - ct) > SEEK_TOLERANCE
           THEN videoTime' = ct /\ lastSeek' = videoSrc'
           ELSE videoTime' = vt /\ UNCHANGED lastSeek

\* the element's position after a handler that did not play it: 0 when
\* the handler gave the element another resource or took its resource away
ElementTime ==
  IF videoSrc' # videoSrc \/ videoHls' # videoHls THEN 0 ELSE videoTime

\* the re-render after a handler that does not call onTimeUpdate
SeekReact == PosReact(currentTime, ElementTime) /\ UNCHANGED lastRelay

\* whether the callback of timer t gives the element a resource to load
TimerLoads(t) == t.kind = "retry" \/ ~IsHls(t.src) \/ hlsSupport # "neither"

(***************************************************************************)
(* captureSnapshot.  The result is "null", "image" (a data URL that holds  *)
(* a JPEG) or "data:," (what toDataURL gives for a surface with no         *)
(* pixels, that is when videoWidth or videoHeight is 0).                   *)
(***************************************************************************)
NoSnapshot == [called |-> FALSE, media |-> "none", ready |-> FALSE,
               result |-> "null"]

\* captureSnapshot() (VideoPlayer.tsx:41-62): hasContext is what
\* getContext('2d') gives, throws whether drawImage or toDataURL throws
\* (toDataURL does on a surface tainted by cross-origin media); an element
\* without media has videoWidth = videoHeight = 0
SnapshotResult(hasContext, throws) ==
  IF ~hasContext \/ throws THEN "null"
  ELSE IF IsMedia(videoSrc) THEN "image"
  ELSE "data:,"

(***************************************************************************)
(* PeopleDetectionGraph.  App renders it while peopleCountHistory is not   *)
(* empty (LiveIndicator.tsx:309-325), with data = peopleCountHistory,      *)
(* sessionId = detectionSessionId and isPaused = !isPeopleDetectionEnabled.*)
(***************************************************************************)
GRAPH_POINTS == 60        \* maxPoints = 60
REDRAW_MS == 1000         \* period of the redraw interval

NoGraph == [chart |-> <<>>, intervals |-> {}, intervalRef |-> 0]

\* new Date(timestamp).toLocaleTimeString(): the time to the second
TimeLabel(timestamp) == timestamp \div 1000

\* ticks.callback of the x axis (AddStreamModal.tsx:282-291): the text of
\* tick `index`, taken from dataPoints[index] of the whole series; -1
\* stands for the empty text
AxisTick(dataPoints, index) ==
  IF index >= 0 /\ index < Len(dataPoints)
    THEN TimeLabel(dataPoints[index + 1].timestamp)
    ELSE -1

\* updateChart (AddStreamModal.tsx:341-365): nothing without data, else
\* labels and counts of currentData.slice(-maxPoints); chart.update draws
\* the points with the axis texts the callback gives, one tick per label
UpdateChart(g, data) ==
  IF Len(data) = 0 THEN g
  ELSE LET limitedData == SliceLast(data, GRAPH_POINTS)
       IN  [g EXCEPT !.chart =
              [k \in 1..Len(limitedData) |->
                 [label |-> TimeLabel(limitedData[k].timestamp),
                  count |-> limitedData[k].count,
                  tick |-> AxisTick(data, k - 1)]]]

\* clearAllIntervals (AddStreamModal.tsx:218-224)
ClearAllIntervals(g) ==
  IF g.intervalRef = 0 THEN g
  ELSE [g EXCEPT !.intervals = {i \in @ : i.id # g.intervalRef},
                 !.intervalRef = 0]

\* the handle window.setInterval returns
FreshInterval(ivs) ==
  CHOOSE id \in 1..(Cardinality(ivs) + 1) : \A i \in ivs : i.id # id

\* setupInterval (AddStreamModal.tsx:197-215), called at time t
SetupInterval(g, isPaused, t) ==
  LET c == ClearAllIntervals(g)
      id == FreshInterval(c.intervals)
  IN  IF isPaused THEN c
      ELSE [c EXCEPT !.intervals = @ \cup {[id |-> id, due |-> t + REDRAW_MS]},
                     !.intervalRef = id]

\* new Chart(...) with no labels and no data, then the initial
\* updateChart() (AddStreamModal.tsx:236-330)
CreateChart(g, data) == UpdateChart([g EXCEPT !.chart = <<>>], data)

\* the graph after a render of App: mount (effects in the order they are
\* declared), unmount (the cleanups), or an update in which the interval
\* effect re-runs when isPaused or sessionId changed and the chart effect
\* when sessionId changed
GraphReact ==
  LET data == peopleCountHistory'
      isPaused == ~isPeopleDetectionEnabled'
      wasMounted == Len(peopleCountHistory) > 0
      isMounted == Len(data) > 0
      newSession == detectionSessionId' # detectionSessionId
      newPause == isPeopleDetectionEnabled' # isPeopleDetectionEnabled
  IN  graph' =
        IF ~isMounted
          THEN IF wasMounted
                 THEN [ClearAllIntervals(graph) EXCEPT !.chart = <<>>]
                 ELSE graph
        ELSE IF ~wasMounted
          THEN CreateChart(SetupInterval(graph, isPaused, now'), data)
        ELSE LET g == IF newSession \/ newPause
                        THEN SetupInterval(graph, isPaused, now')
                        ELSE graph
             IN  IF newSession THEN CreateChart(g, data) ELSE g


\* the callback of a redraw interval (AddStreamModal.tsx:204-212)
GraphTick ==
  \E i \in graph.intervals :
    /\ now <= i.due
    /\ i.due <= Epoch + GraphHorizon
    /\ now' = i.due
    /\ graph' = [UpdateChart(graph, peopleCountHistory) EXCEPT
                   !.intervals = (@ \ {i}) \cup {[i EXCEPT !.due = @ + REDRAW_MS]}]
    /\ UNCHANGED <<appVars, vpVars, pdVars, posVars, modalVars, snapshot>>

(***************************************************************************)
(* Initial state: App, VideoPlayer mounted with videos = [] (videoSource   *)
(* undefined), the source-change effect has run once.                      *)
(***************************************************************************)
Init ==
  /\ now = Epoch
  /\ videos = <<>>
  /\ videosLoading = TRUE
  /\ activeVideoId = "football"
  /\ peopleCount = 0
  /\ isPeopleDetectionEnabled = FALSE
  /\ peopleCountHistory = <<>>
  /\ detectionSessionId = 0
  /\ arrivals = <<>>
  /\ connecting = TRUE
  /\ loading = TRUE
  /\ error = "none"
  /\ errorDetails = "none"
  /\ timeoutRef = 1
  /\ timers = {[id |-> 1, src |-> "undefined", kind |-> "effect"]}
  /\ hlsRef = 0
  /\ hlsObjs = {}
  /\ hlsSupport \in {"mse", "native", "neither"}
  /\ videoSrc = "none"
  /\ videoHls = 0
  /\ videoReady = FALSE
  /\ videoPlaying = FALSE
  /\ pdMounted = FALSE
  /\ model = 0
  /\ isLoading = TRUE
  /\ modelLoadError = FALSE
  /\ detections = <<>>
  /\ canvas = <<>>
  /\ showOverlay = TRUE
  /\ lastOverlayOp = "none"
  /\ requestRef = 0
  /\ loads = {}
  /\ loops = [l \in LoopIds |-> NoLoop]
  /\ currentTime = 0
  /\ videoTime = 0
  /\ lastRelay = NoRelay
  /\ lastSeek = "none"
  /\ isAddStreamModalOpen = FALSE
  /\ streamName = <<>>
  /\ streamUrl = <<>>
  /\ modalError = ""
  /\ snapshot = NoSnapshot
  /\ graph = NoGraph

(***************************************************************************)
(* App actions.                                                            *)
(***************************************************************************)
\* loadVideos: api.getVideos() settles (LiveIndicator.tsx:62-70); the API
\* answers with its list, or with [] after a request error
LoadVideosSettle ==
  /\ videosLoading
  /\ videosLoading' = FALSE
  /\ \E list \in {ApiVideos, <<>>} : videos' = list
  /\ UNCHANGED <<now, activeVideoId, peopleCount, isPeopleDetectionEnabled,
                 peopleCountHistory, detectionSessionId, arrivals>>
  /\ VpReact
  /\ PdReact
  /\ SeekReact
  /\ UNCHANGED <<modalVars, snapshot, graph>>

\* handleTabChange (LiveIndicator.tsx:102-108)
TabChange ==
  \E id \in Range(videos) :
    /\ activeVideoId' = id
    /\ isPeopleDetectionEnabled' = FALSE
    /\ peopleCount' = 0
    /\ peopleCountHistory' = <<>>
    /\ arrivals' = <<>>
    /\ UNCHANGED <<now, videos, videosLoading, detectionSessionId>>
    /\ VpReact
    /\ PdReact
    /\ SeekReact
    /\ UNCHANGED <<modalVars, snapshot>>
    /\ GraphReact

\* handleAddStream called by the AddStreamModal form (LiveIndicator.tsx:114-131)
AddStream ==
  \E id \in StreamIds \ Range(videos) :
    /\ videos' = Append(videos, id)
    /\ activeVideoId' = id
    /\ UNCHANGED <<now, videosLoading, peopleCount, isPeopleDetectionEnabled,
                   peopleCountHistory, detectionSessionId, arrivals>>
    /\ VpReact
    /\ PdReact
    /\ SeekReact
    /\ UNCHANGED <<modalVars, snapshot, graph>>

\* a sample stream is picked on the error overlay of a live stream
\* (VideoPlayer.tsx:316-331): the 'tryStreamUrl' event reaches the listener
\* App registered in its first render (LiveIndicator.tsx:48-60), whose
\* handleAddStream spreads the `videos` of that render, the empty list
TryStreamUrl ==
  \E id \in SampleIds \ Range(videos) :
    /\ error # "none"
    /\ IsHls(VideoSource)
    /\ videos' = Append(<<>>, id)
    /\ activeVideoId' = id
    /\ UNCHANGED <<now, videosLoading, peopleCount, isPeopleDetectionEnabled,
                   peopleCountHistory, detectionSessionId, arrivals>>
    /\ VpReact
    /\ PdReact
    /\ SeekReact
    /\ UNCHANGED <<modalVars, snapshot, graph>>

(***************************************************************************)
(* AddStreamModal.  A field value is a sequence of tokens, each token one  *)
(* or more characters: a scheme, a letter, the manifest extension, a       *)
(* question mark, a blank.  No token is part of another one, so a match of *)
(* urlRegex on the text is a match on the tokens.                          *)
(***************************************************************************)
UrlTokens == {"http://", "https://", "a", ".m3u8", "?", " "}

NameTokens == {"a", " "}

\* one of sampleUrls (AddStreamModal.tsx:52-57)
SampleUrls == {<<"https://", "a", ".m3u8">>}

\* !value.trim()
IsBlank(value) == \A i \in 1..Len(value) : value[i] = " "

\* urlRegex.test(url) with /^(https?:\/\/).+(\.m3u8)(\?.*)?$/i : a scheme,
\* one character or more, the extension, then the end or a query string
UrlRegexTestMutantNoScheme(url) ==
  \E i \in 2..Len(url) :
    /\ url[i] = ".m3u8"
    /\ i = Len(url) \/ url[i + 1] = "?"

UrlRegexTest(url) ==
  /\ Len(url) >= 3
  /\ url[1] \in {"http://", "https://"}
  /\ \E i \in 3..Len(url) :
       /\ url[i] = ".m3u8"
       /\ i = Len(url) \/ url[i + 1] = "?"

\* handleAddStreamClick (LiveIndicator.tsx:110-112)
AddStreamClick ==
  /\ ~isAddStreamModalOpen
  /\ isAddStreamModalOpen' = TRUE
  /\ UNCHANGED <<streamName, streamUrl, modalError>>
  /\ UNCHANGED <<now, appVars, vpVars, pdVars, posVars, snapshot, graph>>

\* onChange of the name field (AddStreamModal.tsx:104): a character is
\* typed or the field is emptied
SetStreamName ==
  /\ isAddStreamModalOpen
  /\ \/ /\ Len(streamName) < MaxNameLen
        /\ \E c \in NameTokens : streamName' = Append(streamName, c)
     \/ streamName # <<>> /\ streamName' = <<>>
  /\ UNCHANGED <<isAddStreamModalOpen, streamUrl, modalError>>
  /\ UNCHANGED <<now, appVars, vpVars, pdVars, posVars, snapshot, graph>>

\* onChange of the URL field (AddStreamModal.tsx:116), or a click on a
\* sample URL (AddStreamModal.tsx:135)
SetStreamUrl ==
  /\ isAddStreamModalOpen
  /\ \/ /\ Len(streamUrl) < MaxUrlLen
        /\ \E c \in UrlTokens : streamUrl' = Append(streamUrl, c)
     \/ streamUrl # <<>> /\ streamUrl' = <<>>
     \/ \E url \in SampleUrls : url # streamUrl /\ streamUrl' = url
  /\ UNCHANGED <<isAddStreamModalOpen, streamName, modalError>>
  /\ UNCHANGED <<now, appVars, vpVars, pdVars, posVars, snapshot, graph>>

\* setError(message); return
RejectSubmit(message) ==
  /\ modalError' = message
  /\ UNCHANGED <<isAddStreamModalOpen, streamName, streamUrl>>
  /\ UNCHANGED <<now, appVars, vpVars, pdVars, posVars, snapshot, graph>>

\* handleSubmit (AddStreamModal.tsx:16-43); an accepted submission runs
\* App.handleAddStream (LiveIndicator.tsx:114-131) and closes the form
HandleSubmit ==
  /\ isAddStreamModalOpen
  /\ IF IsBlank(streamName)
       THEN RejectSubmit("Please enter a name for the stream")
       ELSE IF IsBlank(streamUrl)
       THEN RejectSubmit("Please enter a valid HLS URL")
       ELSE IF ~UrlRegexTest(streamUrl)
       THEN RejectSubmit("Please enter a valid HLS URL (must end with .m3u8)")
       ELSE \E id \in StreamIds \ Range(videos) :
              /\ videos' = Append(videos, id)
              /\ activeVideoId' = id
              /\ UNCHANGED <<now, videosLoading, peopleCount,
                             isPeopleDetectionEnabled, peopleCountHistory,
                             detectionSessionId, arrivals>>
              /\ VpReact
              /\ PdReact
              /\ SeekReact
              /\ UNCHANGED <<snapshot, graph>>
              /\ streamName' = <<>>
              /\ streamUrl' = <<>>
              /\ modalError' = ""
              /\ isAddStreamModalOpen' = FALSE

\* handleCancel (AddStreamModal.tsx:45-50)
HandleCancel ==
  /\ isAddStreamModalOpen
  /\ streamName' = <<>>
  /\ streamUrl' = <<>>
  /\ modalError' = ""
  /\ isAddStreamModalOpen' = FALSE
  /\ UNCHANGED <<now, appVars, vpVars, pdVars, posVars, snapshot, graph>>

\* togglePeopleDetection (LiveIndicator.tsx:155-166).  The button exists
\* only for a live stream (AnalysisControls, PeopleDetection.tsx:340).  A
\* click is a user input: it is handled some milliseconds after whatever
\* was handled before it.
ClickGaps == {JITTER_MS}

ToggleUpdaterMutantKeepHistory(t) ==
  /\ isPeopleDetectionEnabled' = ~isPeopleDetectionEnabled
  /\ IF ~isPeopleDetectionEnabled
       THEN /\ detectionSessionId' = t
            /\ UNCHANGED <<peopleCountHistory, arrivals>>
       ELSE UNCHANGED <<detectionSessionId, peopleCountHistory, arrivals>>

ToggleUpdaterMutantClearOnOff(t) ==
  /\ isPeopleDetectionEnabled' = ~isPeopleDetectionEnabled
  /\ peopleCountHistory' = <<>>
  /\ arrivals' = <<>>
  /\ IF ~isPeopleDetectionEnabled
       THEN detectionSessionId' = t
       ELSE UNCHANGED detectionSessionId

ToggleUpdater(t) ==
  /\ isPeopleDetectionEnabled' = ~isPeopleDetectionEnabled
  /\ IF ~isPeopleDetectionEnabled
       THEN /\ detectionSessionId' = t
            /\ peopleCountHistory' = <<>>
            /\ arrivals' = <<>>
       ELSE UNCHANGED <<detectionSessionId, peopleCountHistory, arrivals>>

TogglePeopleDetection ==
  \E d \in ClickGaps :
    /\ IsHls(VideoSource)
    /\ now + d <= Epoch + MaxTime
    /\ now' = now + d
    /\ ToggleUpdater(now')
    /\ UNCHANGED <<videos, videosLoading, activeVideoId, peopleCount>>
    /\ VpReact
    /\ PdReact
    /\ SeekReact
    /\ UNCHANGED <<modalVars, snapshot>>
    /\ GraphReact

\* time passes
ClockSteps == {JITTER_MS}

AdvanceClock ==
  \E d \in ClockSteps :
    /\ now + d <= Epoch + MaxTime
    /\ now' = now + d
    /\ UNCHANGED <<appVars, vpVars, pdVars, posVars, modalVars, snapshot, graph>>

(***************************************************************************)
(* VideoPlayer actions.                                                    *)
(***************************************************************************)
\* a pending window.setTimeout callback runs
TimerFire ==
  \E t \in timers :
    /\ timers' = timers \ {t}
    /\ IF t.kind = "effect" THEN EffectTimerBody(t.src) ELSE RetryTimerBody(t.src)
    /\ UNCHANGED <<loading, timeoutRef, hlsSupport>>
    /\ UNCHANGED <<now, appVars>>
    /\ PdReact
    /\ PosReact(currentTime, IF TimerLoads(t) THEN 0 ELSE videoTime)
    /\ UNCHANGED <<lastRelay, modalVars, snapshot, graph>>

\* onClick of the Retry Connection button, shown in the error overlay
\* (VideoPlayer.tsx:339-378)
RetryClick ==
  LET id == FreshId(timers)
  IN  /\ error # "none"
      /\ Cardinality(timers) < MaxTimers
      /\ error' = "none"
      /\ errorDetails' = "none"
      /\ connecting' = TRUE
      /\ loading' = TRUE
      /\ hlsObjs' = {h \in hlsObjs : h.id # hlsRef}
      /\ hlsRef' = 0
      /\ videoSrc' = "empty"
      /\ videoHls' = 0
      /\ videoReady' = FALSE
      /\ videoPlaying' = FALSE
      /\ timers' = timers \cup {[id |-> id, src |-> VideoSource, kind |-> "retry"]}
      /\ timeoutRef' = id
      /\ UNCHANGED hlsSupport
      /\ UNCHANGED <<now, appVars>>
      /\ PdReact
      /\ SeekReact
      /\ UNCHANGED <<modalVars, snapshot, graph>>

\* handleCanPlay that also clears the error
VideoCanPlayMutantClearsError ==
  /\ IsMedia(videoSrc)
  /\ loading' = FALSE
  /\ error' = "none"
  /\ errorDetails' = "none"
  /\ \E ok \in BOOLEAN : videoPlaying' = (videoPlaying \/ ok)
  /\ UNCHANGED <<connecting, timeoutRef, timers, hlsRef,
                 hlsObjs, hlsSupport, videoSrc, videoHls, videoReady>>
  /\ UNCHANGED <<now, appVars>>
  /\ PdReact
  /\ SeekReact
  /\ UNCHANGED <<modalVars, snapshot, graph>>

\* 'canplay' of the <video> element: handleCanPlay (VideoPlayer.tsx:217-223);
\* play() may be refused by the browser
VideoCanPlay ==
  /\ IsMedia(videoSrc)
  /\ loading' = FALSE
  /\ \E ok \in BOOLEAN : videoPlaying' = (videoPlaying \/ ok)
  /\ UNCHANGED <<connecting, error, errorDetails, timeoutRef, timers, hlsRef,
                 hlsObjs, hlsSupport, videoSrc, videoHls, videoReady>>
  /\ UNCHANGED <<now, appVars>>
  /\ PdReact
  /\ SeekReact
  /\ UNCHANGED <<modalVars, snapshot, graph>>

\* 'playing' of the <video> element: handlePlaying (VideoPlayer.tsx:241-244)
VideoPlayingEvent ==
  /\ IsMedia(videoSrc)
  /\ loading' = FALSE
  /\ UNCHANGED <<connecting, error, errorDetails, timeoutRef, timers, hlsRef,
                 hlsObjs, hlsSupport, videoSrc, videoHls, videoReady,
                 videoPlaying>>
  /\ UNCHANGED <<now, appVars>>
  /\ PdReact
  /\ SeekReact
  /\ UNCHANGED <<modalVars, snapshot, graph>>

\* 'error' of the <video> element: handleError (VideoPlayer.tsx:231-239)
VideoError ==
  /\ videoSrc # "none"
  /\ error' = "Failed to load"
  /\ errorDetails' = "Error code"
  /\ loading' = FALSE
  /\ UNCHANGED <<connecting, timeoutRef, timers, hlsRef, hlsObjs, hlsSupport,
                 videoSrc, videoHls, videoReady, videoPlaying>>
  /\ UNCHANGED <<now, appVars>>
  /\ PdReact
  /\ SeekReact
  /\ UNCHANGED <<modalVars, snapshot, graph>>

\* what a fatal Hls error event carries: data.type and data.response.code
\* (0 when data.response is absent)
ErrorTypes == {"network", "media", "other"}

ResponseCodes == {0, 403, 404, 500}

\* errorMessage before the switch (VideoPlayer.tsx:133-144)
HttpErrorMessage(code) ==
  CASE code = 403 -> "Access denied (403 Forbidden). This stream requires authorization or is not publicly accessible."
    [] code = 404 -> "Stream not found (404). The URL may be incorrect."
    [] code = 500 -> "HTTP error 500"
    [] OTHER -> "Failed to load stream"

\* !data.response || data.response.code !== 403 (VideoPlayer.tsx:153)
ShouldReload(code) == code # 403

\* which fatal errors end in setError and hls.destroy()
IsTerminal(type, code) ==
  \/ type = "network" /\ ~ShouldReload(code)
  \/ type = "other"

\* the Hls.Events.ERROR listener of instance h for a fatal error
\* (VideoPlayer.tsx:129-176)
HlsErrorHandler(h, type, code) ==
  CASE type = "network" /\ ShouldReload(code) ->
         /\ h.reloads < MaxReloads
         /\ hlsObjs' = (hlsObjs \ {h}) \cup {[h EXCEPT !.reloads = @ + 1]}
         /\ UNCHANGED <<error, errorDetails, videoSrc, videoHls, videoReady>>
    [] type = "network" /\ ~ShouldReload(code) ->
         /\ error' = "Stream Access Error"
         /\ errorDetails' = "Network error: " \o HttpErrorMessage(code)
         /\ DestroyHls(h.id)
    [] type = "media" ->
         /\ h.recovers < MaxReloads
         /\ hlsObjs' = (hlsObjs \ {h}) \cup {[h EXCEPT !.recovers = @ + 1]}
         /\ UNCHANGED <<error, errorDetails, videoSrc, videoHls, videoReady>>
    [] OTHER ->
         /\ error' = "Stream Error"
         /\ errorDetails' = HttpErrorMessage(code)
         /\ DestroyHls(h.id)

\* instance h emits a fatal error
HlsError(h, type, code) ==
  /\ IF h.handlers
       THEN HlsErrorHandler(h, type, code)
       ELSE /\ h.failed = "none"
            /\ hlsObjs' = (hlsObjs \ {h}) \cup
                 {[h EXCEPT !.failed = IF type = "network" /\ code = 403
                                         THEN "denied" ELSE "fatal"]}
            /\ UNCHANGED <<error, errorDetails, videoSrc, videoHls, videoReady>>
  /\ UNCHANGED <<connecting, loading, timeoutRef, timers, hlsRef, hlsSupport,
                 videoPlaying>>
  /\ UNCHANGED <<now, appVars>>
  /\ PdReact
  /\ SeekReact
  /\ UNCHANGED <<modalVars, snapshot, graph>>

\* a fatal error that the listener ends with setError and hls.destroy()
\* (VideoPlayer.tsx:155-159, 168-173)
HlsFatalError ==
  \E h \in hlsObjs, type \in ErrorTypes, code \in ResponseCodes :
    /\ h.handlers /\ IsTerminal(type, code)
    /\ HlsError(h, type, code)

\* a fatal error that the listener answers with hls.startLoad() or
\* hls.recoverMediaError() (VideoPlayer.tsx:153-154, 162-166)
HlsRecoverableError ==
  \E h \in hlsObjs, type \in ErrorTypes, code \in ResponseCodes :
    /\ h.handlers /\ ~IsTerminal(type, code)
    /\ HlsError(h, type, code)

\* a fatal error of an instance created without listeners
\* (VideoPlayer.tsx:364-367)
HlsUnhandledError ==
  \E h \in hlsObjs, type \in ErrorTypes, code \in ResponseCodes :
    /\ ~h.handlers
    /\ HlsError(h, type, code)

\* a non-fatal error: the listener, if there is one, logs it and builds a
\* message it does not use (VideoPlayer.tsx:130-146)
HlsNonFatalError ==
  /\ hlsObjs # {}
  /\ UNCHANGED vars

\* the media element changes by itself: buffering fills or drains
\* readyState, playback starts, pauses or ends
MediaChange ==
  /\ IsMedia(videoSrc)
  /\ \E r \in BOOLEAN, p \in BOOLEAN :
       /\ <<r, p>> # <<videoReady, videoPlaying>>
       /\ videoReady' = r
       /\ videoPlaying' = p
  /\ UNCHANGED <<connecting, loading, error, errorDetails, timeoutRef, timers,
                 hlsRef, hlsObjs, hlsSupport, videoSrc, videoHls>>
  /\ UNCHANGED <<now, appVars, pdVars, posVars, modalVars, snapshot, graph>>

\* playback moves the element's position and the element emits
\* 'timeupdate': handleTimeUpdate of the video-events effect
\* (VideoPlayer.tsx:225-229), whose closure holds the current videoSource,
\* then App's handleTimeUpdate (LiveIndicator.tsx:259-261) and the re-render
VideoTimeUpdate ==
  /\ IsMedia(videoSrc)
  /\ videoPlaying
  /\ videoTime < MaxPos
  /\ UNCHANGED <<now, appVars, vpVars, pdVars, modalVars, snapshot, graph>>
  /\ LET pos == videoTime + 1
     IN  IF ~IsHls(VideoSource)
           THEN /\ PosReact(pos, pos)
                /\ lastRelay' = [called |-> TRUE, connecting |-> connecting,
                                 loading |-> loading, failed |-> error # "none",
                                 media |-> videoSrc]
           ELSE /\ PosReact(currentTime, pos)
                /\ UNCHANGED lastRelay

\* App.handleAnalysisRequest on a live source calls captureSnapshot of
\* the player (LiveIndicator.tsx:193-199, VideoPlayer.tsx:41-62); the
\* <video> element is rendered in every state, so videoRef.current is set
CaptureSnapshot ==
  /\ IsHls(VideoSource)
  /\ \E hasContext \in BOOLEAN, throws \in BOOLEAN :
       /\ ~(throws /\ ~IsMedia(videoSrc))
       /\ snapshot' = [called |-> TRUE, media |-> videoSrc, ready |-> videoReady,
                       result |-> SnapshotResult(hasContext, throws)]
  /\ UNCHANGED <<now, appVars, vpVars, pdVars, posVars, modalVars, graph>>

(***************************************************************************)
(* PeopleDetection actions.                                                *)
(***************************************************************************)
THRESHOLD_PCT == 50       \* pred.score > 0.5, scores in percent

Person(score) == [class |-> "person", score |-> score]

Car(score) == [class |-> "car", score |-> score]

\* what model.detect(video) may resolve to
RawFrames == { <<>>, <<Person(70)>>, <<Person(50), Car(90)>>,
               <<Car(90), Person(70)>> }

IsPersonAboveThresholdMutantInclusive(pred) ==
  pred.class = "person" /\ pred.score >= THRESHOLD_PCT

IsPersonAboveThreshold(pred) ==
  pred.class = "person" /\ pred.score > THRESHOLD_PCT

\* predictions.filter(...) (PeopleDetection.tsx:125-127)
FilterPeople(predictions) == SelectSeq(predictions, IsPersonAboveThreshold)

\* the browser runs the pending requestAnimationFrame callback of loop l:
\* detectPeople() runs to its first suspension point
\* (PeopleDetection.tsx:111-122, 144-147)
DetectPeople(l) ==
  /\ loops[l].pc = "raf"
  /\ IF loops[l].orphan
       THEN UNCHANGED <<loops, requestRef>>      \* !canvasRef.current
       ELSE LET pc == TickPc(videoReady, videoPlaying)
            IN  /\ loops' = [loops EXCEPT ![l].pc = pc]
                /\ requestRef' = IF pc = "raf" THEN l ELSE requestRef
  /\ UNCHANGED <<pdMounted, showOverlay, lastOverlayOp, model, isLoading, modelLoadError, detections,
                 canvas, loads>>
  /\ UNCHANGED <<now, appVars, vpVars, posVars, modalVars, snapshot, graph>>

LoopFrame == \E l \in LoopIds : DetectPeople(l)

\* DetectionResult with requestAnimationFrame called at once, no 500 ms timer
DetectionResultMutantNoThrottle(l, raw) ==
  LET peopleDetections == FilterPeople(raw)
  IN  /\ loops[l].pc = "inflight"
      /\ now' = now
      /\ HandlePeopleCountChange(Len(peopleDetections), loops[l].enabled)
      /\ IF loops[l].orphan
           THEN UNCHANGED <<detections, canvas, lastOverlayOp>>
           ELSE /\ detections' = peopleDetections
                /\ canvas' = CanvasEffect(isPeopleDetectionEnabled, showOverlay,
                                          peopleDetections, <<>>)
                /\ lastOverlayOp' = "none"
      /\ loops' = [loops EXCEPT ![l].pc = "raf", ![l].failed = FALSE]
      /\ UNCHANGED <<pdMounted, showOverlay, model, isLoading, modelLoadError, requestRef,
                     loads>>
      /\ UNCHANGED <<videos, videosLoading, activeVideoId,
                     isPeopleDetectionEnabled, detectionSessionId>>
      /\ UNCHANGED vpVars
      /\ UNCHANGED <<posVars, modalVars, snapshot>>
      /\ GraphReact


\* model.detect(video) resolves: the rest of the try block runs, then the
\* 500 ms timer is set (PeopleDetection.tsx:122-147); setDetections
\* re-renders and the canvas effect runs (PeopleDetection.tsx:238-248)
DetectionResult(l, raw) ==
  LET peopleDetections == FilterPeople(raw)
  IN  /\ loops[l].pc = "inflight"
      /\ now' = now
      /\ HandlePeopleCountChange(Len(peopleDetections), loops[l].enabled)
      /\ IF loops[l].orphan
           THEN UNCHANGED <<detections, canvas, lastOverlayOp>>
           ELSE /\ detections' = peopleDetections
                /\ canvas' = CanvasEffect(isPeopleDetectionEnabled, showOverlay,
                                          peopleDetections, <<>>)
                /\ lastOverlayOp' = "none"
      /\ loops' = [loops EXCEPT ![l].pc = "timer", ![l].failed = FALSE]
      /\ UNCHANGED <<pdMounted, showOverlay, model, isLoading, modelLoadError, requestRef,
                     loads>>
      /\ UNCHANGED <<videos, videosLoading, activeVideoId,
                     isPeopleDetectionEnabled, detectionSessionId>>
      /\ UNCHANGED vpVars
      /\ UNCHANGED <<posVars, modalVars, snapshot>>
      /\ GraphReact

InferenceResolve ==
  \E l \in LoopIds, raw \in RawFrames : DetectionResult(l, raw)

\* model.detect(video) rejects: the catch logs, then the 500 ms timer is set
InferenceRejectMutantStop ==
  \E l \in LoopIds :
    /\ loops[l].pc = "inflight"
    /\ loops' = [loops EXCEPT ![l] = NoLoop]
    /\ UNCHANGED <<pdMounted, showOverlay, lastOverlayOp, model, isLoading, modelLoadError, detections,
                   canvas, requestRef, loads>>
    /\ UNCHANGED <<now, appVars, vpVars, posVars, modalVars, snapshot, graph>>

InferenceReject ==
  \E l \in LoopIds :
    /\ loops[l].pc = "inflight"
    /\ loops' = [loops EXCEPT ![l].pc = "timer", ![l].failed = TRUE]
    /\ UNCHANGED <<pdMounted, showOverlay, lastOverlayOp, model, isLoading, modelLoadError, detections,
                   canvas, requestRef, loads>>
    /\ UNCHANGED <<now, appVars, vpVars, posVars, modalVars, snapshot, graph>>

\* the 500 ms timer fires: requestRef.current = requestAnimationFrame(...)
\* (PeopleDetection.tsx:145-147)
LoopTimerFire ==
  \E l \in LoopIds :
    /\ loops[l].pc = "timer"
    /\ loops' = [loops EXCEPT ![l].pc = "raf", ![l].failed = FALSE]
    /\ requestRef' = IF loops[l].orphan THEN requestRef ELSE l
    /\ UNCHANGED <<pdMounted, showOverlay, lastOverlayOp, model, isLoading, modelLoadError, detections,
                   canvas, loads>>
    /\ UNCHANGED <<now, appVars, vpVars, posVars, modalVars, snapshot, graph>>

\* PeopleDetection is rendered again with the other value of its
\* showOverlay prop: the effect on [isEnabled, showOverlay, detections]
\* runs (PeopleDetection.tsx:21, 238-248)
SetShowOverlay ==
  /\ pdMounted
  /\ showOverlay' = ~showOverlay
  /\ lastOverlayOp' = IF showOverlay' THEN "show" ELSE "hide"
  /\ canvas' = CanvasEffect(isPeopleDetectionEnabled, showOverlay', detections,
                            canvas)
  /\ UNCHANGED <<pdMounted, model, isLoading, modelLoadError, detections,
                 requestRef, loads, loops>>
  /\ UNCHANGED <<now, appVars, vpVars, posVars, modalVars, snapshot, graph>>

\* the continuation without its isMounted test
LoadSucceedMutantNoMountCheck ==
  \E t \in loads :
    /\ loads' = loads \ {t}
    /\ IF FALSE
         THEN UNCHANGED <<model, isLoading, modelLoadError, loops, requestRef>>
         ELSE LET ls0 == IF model # 0 THEN CancelFrame(loops, requestRef) ELSE loops
                  ref0 == IF model # 0 THEN 0 ELSE requestRef
                  ls1 == StartLoop(ls0, videoReady, videoPlaying, detectionSessionId)
              IN  /\ FreeLoops(ls0) # {}
                  /\ model' = 1
                  /\ isLoading' = FALSE
                  /\ modelLoadError' = FALSE
                  /\ loops' = ls1
                  /\ requestRef' = RefAfterStart(ls0, ls1, ref0)
    /\ UNCHANGED <<pdMounted, showOverlay, lastOverlayOp, detections, canvas>>
    /\ UNCHANGED <<now, appVars, vpVars, posVars, modalVars, snapshot, graph>>

\* cocoSsd.load() resolves, on the first attempt or on the CPU fallback
\* (PeopleDetection.tsx:52-59, 71-79); setModel re-runs the detection-loop
\* effect: its cleanup, if the previous run started a loop, then its body
LoadSucceed ==
  \E t \in loads :
    /\ loads' = loads \ {t}
    /\ IF ~t.isMounted
         THEN UNCHANGED <<model, isLoading, modelLoadError, loops, requestRef>>
         ELSE LET ls0 == IF model # 0 THEN CancelFrame(loops, requestRef) ELSE loops
                  ref0 == IF model # 0 THEN 0 ELSE requestRef
                  ls1 == StartLoop(ls0, videoReady, videoPlaying, detectionSessionId)
              IN  /\ FreeLoops(ls0) # {}
                  /\ model' = 1
                  /\ isLoading' = FALSE
                  /\ modelLoadError' = FALSE
                  /\ loops' = ls1
                  /\ requestRef' = RefAfterStart(ls0, ls1, ref0)
    /\ UNCHANGED <<pdMounted, showOverlay, lastOverlayOp, detections, canvas>>
    /\ UNCHANGED <<now, appVars, vpVars, posVars, modalVars, snapshot, graph>>

\* the first attempt (WebGL backend) fails (PeopleDetection.tsx:60-69)
LoadGpuFail ==
  \E t \in loads :
    /\ t.stage = "gpu"
    /\ IF ~t.isMounted
         THEN loads' = loads \ {t} /\ UNCHANGED modelLoadError
         ELSE /\ loads' = (loads \ {t}) \cup {[t EXCEPT !.stage = "cpu"]}
              /\ modelLoadError' = TRUE
    /\ UNCHANGED <<pdMounted, showOverlay, lastOverlayOp, model, isLoading,
                   detections, canvas, requestRef, loops>>
    /\ UNCHANGED <<now, appVars, vpVars, posVars, modalVars, snapshot, graph>>

\* the CPU fallback fails too (PeopleDetection.tsx:80-85)
LoadCpuFailMutantRetry ==
  \E t \in loads :
    /\ t.stage = "cpu"
    /\ loads' = (loads \ {t}) \cup {[t EXCEPT !.stage = "gpu"]}
    /\ IF ~t.isMounted
         THEN UNCHANGED <<isLoading, modelLoadError>>
         ELSE isLoading' = FALSE /\ modelLoadError' = TRUE
    /\ UNCHANGED <<pdMounted, showOverlay, lastOverlayOp, model, detections,
                   canvas, requestRef, loops>>
    /\ UNCHANGED <<now, appVars, vpVars, posVars, modalVars, snapshot, graph>>

LoadCpuFail ==
  \E t \in loads :
    /\ t.stage = "cpu"
    /\ loads' = loads \ {t}
    /\ IF ~t.isMounted
         THEN UNCHANGED <<isLoading, modelLoadError>>
         ELSE isLoading' = FALSE /\ modelLoadError' = TRUE
    /\ UNCHANGED <<pdMounted, showOverlay, lastOverlayOp, model, detections,
                   canvas, requestRef, loops>>
    /\ UNCHANGED <<now, appVars, vpVars, posVars, modalVars, snapshot, graph>>

Next ==
  \/ LoadVideosSettle
  \/ TabChange
  \/ AddStream
  \/ TogglePeopleDetection
  \/ AdvanceClock
  \/ TimerFire
  \/ RetryClick
  \/ VideoCanPlay
  \/ VideoPlayingEvent
  \/ VideoError
  \/ HlsFatalError
  \/ HlsRecoverableError
  \/ HlsUnhandledError
  \/ MediaChange
  \/ LoopFrame
  \/ InferenceResolve
  \/ InferenceReject
  \/ LoopTimerFire
  \/ LoadSucceed
  \/ LoadGpuFail
  \/ LoadCpuFail
  \/ VideoTimeUpdate
  \/ CaptureSnapshot
  \/ AddStreamClick
  \/ SetStreamName
  \/ SetStreamUrl
  \/ HandleSubmit
  \/ HandleCancel
  \/ HlsNonFatalError
  \/ GraphTick
  \/ TryStreamUrl

Spec == Init /\ [][Next]_vars

(***************************************************************************)
(* SpecConn: the connection state machine.  Detection is never enabled     *)
(* and the clock is not observed, so only App's source selection and       *)
(* VideoPlayer act; none of the actions left out writes a variable that    *)
(* these actions read.                                                     *)
(***************************************************************************)
NextConn ==
  \/ LoadVideosSettle
  \/ TabChange
  \/ AddStream
  \/ TimerFire
  \/ RetryClick
  \/ VideoCanPlay
  \/ VideoPlayingEvent
  \/ VideoError
  \/ HlsFatalError
  \/ MediaChange

SpecConn == Init /\ [][NextConn]_vars

(***************************************************************************)
(* SpecHls: the connection state machine with every fatal error an Hls     *)
(* instance can emit, including those the ERROR listener answers with a    *)
(* reload or a media recovery and those no listener receives.              *)
(***************************************************************************)
NextHls ==
  \/ LoadVideosSettle
  \/ TabChange
  \/ AddStream
  \/ TimerFire
  \/ RetryClick
  \/ VideoCanPlay
  \/ VideoError
  \/ HlsFatalError
  \/ HlsRecoverableError
  \/ HlsUnhandledError

SpecHls == Init /\ [][NextHls]_vars

(***************************************************************************)
(* SpecOverlay: the PeopleDetection component with its showOverlay prop    *)
(* driven by its parent.  VideoPlayer renders PeopleDetection without the  *)
(* prop (VideoPlayer.tsx:393-398), so in the assembled page it keeps its   *)
(* default, true; here the parent may change it at any time.               *)
(***************************************************************************)
NextOverlay ==
  \/ LoadVideosSettle
  \/ AddStream
  \/ TogglePeopleDetection
  \/ TimerFire
  \/ VideoCanPlay
  \/ MediaChange
  \/ LoopFrame
  \/ InferenceResolve
  \/ LoopTimerFire
  \/ LoadSucceed
  \/ SetShowOverlay

SpecOverlay == Init /\ [][NextOverlay]_vars

(***************************************************************************)
(* SpecDet: the detection scheduler and the count series, over a           *)
(* connection that meets no error.                                         *)
(***************************************************************************)
NextDet ==
  \/ LoadVideosSettle
  \/ TabChange
  \/ AddStream
  \/ TogglePeopleDetection
  \/ AdvanceClock
  \/ TimerFire
  \/ VideoCanPlay
  \/ MediaChange
  \/ LoopFrame
  \/ InferenceResolve
  \/ InferenceReject
  \/ LoopTimerFire
  \/ LoadSucceed
  \/ LoadGpuFail
  \/ LoadCpuFail

SpecDet == Init /\ [][NextDet]_vars

(***************************************************************************)
(* SpecPos: the connection state machine with playback, the position       *)
(* updates it relays and the seek-sync effect.                             *)
(***************************************************************************)
NextPos ==
  \/ LoadVideosSettle
  \/ TabChange
  \/ AddStream
  \/ TimerFire
  \/ RetryClick
  \/ VideoCanPlay
  \/ VideoError
  \/ VideoTimeUpdate

SpecPos == Init /\ [][NextPos]_vars

(***************************************************************************)
(* SpecModal: the add-stream form alone, from the first render on.          *)
(***************************************************************************)
NextModal ==
  \/ AddStreamClick
  \/ SetStreamName
  \/ SetStreamUrl
  \/ HandleSubmit
  \/ HandleCancel

SpecModal == Init /\ [][NextModal]_vars

(***************************************************************************)
(* SpecSnap: the connection state machine of a live source with the        *)
(* snapshot operation.                                                     *)
(***************************************************************************)
NextSnap ==
  \/ LoadVideosSettle
  \/ AddStream
  \/ TimerFire
  \/ RetryClick
  \/ VideoCanPlay
  \/ VideoError
  \/ HlsFatalError
  \/ MediaChange
  \/ CaptureSnapshot

SpecSnap == Init /\ [][NextSnap]_vars

(***************************************************************************)
(* SpecAgg: the count series alone.  handlePeopleCountChange is applied    *)
(* to series of every length of interest, the long ones included: the      *)
(* series starts as n samples AggSpacing ms apart, the last one taken at   *)
(* Epoch, and count events, session toggles and tab changes follow at      *)
(* chosen distances in time.                                               *)
(***************************************************************************)
AggPrefills == {0, 1, MAX_POINTS - 1, MAX_POINTS}

AggDeltas == {0, JITTER_MS - 1, JITTER_MS, 200}

Prefill(n) ==
  [i \in 1..n |-> [timestamp |-> Epoch - (n - i) * AggSpacing, count |-> i % 2]]

\* the graph as it is when `data` has been on display since Epoch
GraphShowing(data) ==
  IF Len(data) = 0 THEN NoGraph
  ELSE CreateChart(SetupInterval(NoGraph, FALSE, Epoch), data)

AggInitWith(prefills) ==
  /\ now = Epoch
  /\ videos = <<"stream1">>
  /\ videosLoading = FALSE
  /\ activeVideoId = "stream1"
  /\ peopleCount = 0
  /\ isPeopleDetectionEnabled = TRUE
  /\ \E n \in prefills : /\ peopleCountHistory = Prefill(n)
                          /\ arrivals = Prefill(n)
  /\ detectionSessionId = 0
  /\ connecting = FALSE
  /\ loading = FALSE
  /\ error = "none"
  /\ errorDetails = "none"
  /\ timeoutRef = 0
  /\ timers = {}
  /\ hlsRef = 0
  /\ hlsObjs = {}
  /\ hlsSupport = "native"
  /\ videoSrc = "stream1"
  /\ videoHls = 0
  /\ videoReady = TRUE
  /\ videoPlaying = TRUE
  /\ pdMounted = TRUE
  /\ model = 0
  /\ isLoading = TRUE
  /\ modelLoadError = FALSE
  /\ detections = <<>>
  /\ canvas = <<>>
  /\ showOverlay = TRUE
  /\ lastOverlayOp = "none"
  /\ requestRef = 0
  /\ loads = {}
  /\ loops = [l \in LoopIds |-> NoLoop]
  /\ currentTime = 0
  /\ videoTime = 0
  /\ lastRelay = NoRelay
  /\ lastSeek = "none"
  /\ isAddStreamModalOpen = FALSE
  /\ streamName = <<>>
  /\ streamUrl = <<>>
  /\ modalError = ""
  /\ snapshot = NoSnapshot
  /\ graph = GraphShowing(peopleCountHistory)

AggInit == AggInitWith(AggPrefills)

\* a tick reports `count`, d ms after the previous event, through the
\* handlePeopleCountChange closure that captured `enabled`
CountEvent(d, count, enabled) ==
  /\ now + d <= Epoch + AggHorizon
  /\ now' = now + d
  /\ HandlePeopleCountChange(count, enabled)
  /\ UNCHANGED <<videos, videosLoading, activeVideoId, isPeopleDetectionEnabled,
                 detectionSessionId>>
  /\ UNCHANGED <<vpVars, pdVars, posVars, modalVars, snapshot>>
  /\ GraphReact

AggCount == \E d \in AggDeltas, c \in Counts, en \in BOOLEAN : CountEvent(d, c, en)

\* togglePeopleDetection, as far as the series goes
AggToggle ==
  \E d \in AggDeltas \ {0} :
    /\ now + d <= Epoch + AggHorizon
    /\ now' = now + d
    /\ ToggleUpdater(now')
    /\ UNCHANGED <<videos, videosLoading, activeVideoId, peopleCount>>
    /\ UNCHANGED <<vpVars, pdVars, posVars, modalVars, snapshot>>
    /\ GraphReact

\* handleTabChange on the active tab, as far as the series goes
AggTabChange ==
  /\ isPeopleDetectionEnabled' = FALSE
  /\ peopleCount' = 0
  /\ peopleCountHistory' = <<>>
  /\ arrivals' = <<>>
  /\ UNCHANGED <<now, videos, videosLoading, activeVideoId, detectionSessionId>>
  /\ UNCHANGED <<vpVars, pdVars, posVars, modalVars, snapshot>>
  /\ GraphReact

NextAgg == AggCount \/ AggToggle \/ AggTabChange

SpecAgg == AggInit /\ [][NextAgg]_vars

(***************************************************************************)
(* SpecSrc: the source list and the active source.  Sources are loaded,    *)
(* selected and added from the form and from the error overlay, while      *)
(* people detection is switched on and off and the player connects or      *)
(* fails.                                                                  *)
(***************************************************************************)
NextSrc ==
  \/ LoadVideosSettle
  \/ TabChange
  \/ AddStream
  \/ TryStreamUrl
  \/ TogglePeopleDetection
  \/ TimerFire
  \/ VideoError
  \/ RetryClick

SpecSrc == Init /\ [][NextSrc]_vars

(***************************************************************************)
(* SpecGraph: the count series and PeopleDetectionGraph.  The series       *)
(* starts with n samples for lengths around the size of the window; count  *)
(* events, session toggles, tab changes and the ticks of the redraw        *)
(* interval follow.  An interval callback runs when it is due: no other    *)
(* event moves the clock past the due time of an active interval.          *)
(***************************************************************************)
GraphPrefills == {0, 1, GRAPH_POINTS - 1, GRAPH_POINTS, GRAPH_POINTS + 1,
                  MAX_POINTS}

GraphDeltas == {250, 500}

GraphInit == AggInitWith(GraphPrefills)

\* time t is not after the due time of an active interval
BeforeDue(t) == \A i \in graph.intervals : t <= i.due

\* a tick of the detection loop reports a count
GraphCount ==
  \E d \in GraphDeltas, c \in Counts, en \in BOOLEAN :
    /\ now + d <= Epoch + GraphHorizon
    /\ BeforeDue(now + d)
    /\ now' = now + d
    /\ HandlePeopleCountChange(c, en)
    /\ UNCHANGED <<videos, videosLoading, activeVideoId, isPeopleDetectionEnabled,
                   detectionSessionId>>
    /\ UNCHANGED <<vpVars, pdVars, posVars, modalVars, snapshot>>
    /\ GraphReact

\* togglePeopleDetection, as far as the series and the graph go
GraphToggle ==
  \E d \in GraphDeltas :
    /\ now + d <= Epoch + GraphHorizon
    /\ BeforeDue(now + d)
    /\ now' = now + d
    /\ ToggleUpdater(now')
    /\ UNCHANGED <<videos, videosLoading, activeVideoId, peopleCount>>
    /\ UNCHANGED <<vpVars, pdVars, posVars, modalVars, snapshot>>
    /\ GraphReact

NextGraph == GraphCount \/ GraphToggle \/ AggTabChange \/ GraphTick

SpecGraph == GraphInit /\ [][NextGraph]_vars

(***************************************************************************)
(* Properties.                                                             *)
(***************************************************************************)
LastOf(s) == s[Len(s)]

\* a loop whose detection has been deactivated: detection is off, or its
\* component was unmounted, or a newer session has begun since it started
Deactivated(l) ==
  /\ loops[l].pc # "none"
  /\ \/ ~isPeopleDetectionEnabled
     \/ loops[l].orphan
     \/ loops[l].sess # detectionSessionId

\* C1: every change of the video source, whatever the connection state
\* before it, sets the connecting and loading flags and clears the error
\* and the error detail.
C1_SourceChangeResets ==
  [][CurrentVideoSource(videos', activeVideoId') # VideoSource
       => /\ connecting' /\ loading'
          /\ error' = "none" /\ errorDetails' = "none"]_vars

\* C1 witness: a stream has just been selected while the element still holds
\* the media of the previous source; the state is Connecting with no error.
C1_Witness ==
  /\ VideoSource = "stream1" /\ videoSrc = "football"
  /\ connecting /\ loading /\ error = "none"

\* C2: a timer callback that runs was scheduled for the source that is
\* current when it runs, and every decoder instance alive was created for
\* the current source.
C2_NoStaleTimerOrDecoder ==
  [][/\ \A t \in timers :
          (t \notin timers' /\ ~connecting') => t.src = VideoSource
     /\ \A h \in hlsObjs' :
          h.src = CurrentVideoSource(videos', activeVideoId')]_vars

\* C3: at most one model.detect call is outstanding.
C3_SingleFlight ==
  Cardinality({l \in LoopIds : loops[l].pc = "inflight"}) <= 1

\* C4: the animation-frame callback of a deactivated loop never takes
\* detectPeople into an inference call or to a new 500 ms timer.
C4_NoTickAfterDeactivation ==
  [][\A l \in LoopIds :
       (Deactivated(l) /\ DetectPeople(l))
         => loops'[l].pc \notin {"inflight", "timer"}]_vars

\* C5: when the inference call of a deactivated loop settles, the stored
\* detection set, the overlay and the reported count stay as they were.
C5_StaleResultDiscarded ==
  [][\A l \in LoopIds :
       (Deactivated(l) /\ loops[l].pc = "inflight" /\ loops'[l].pc = "timer")
         => /\ detections' = detections
            /\ canvas' = canvas
            /\ peopleCount' = peopleCount
            /\ peopleCountHistory' = peopleCountHistory]_vars

\* C6: a count reported by a loop started in an earlier session is never
\* stored in the series of the current session.
C6_SessionIsolation ==
  [][\A l \in LoopIds :
       (/\ loops[l].pc = "inflight" /\ loops'[l].pc = "timer"
        /\ loops[l].sess # detectionSessionId)
         => peopleCountHistory' = peopleCountHistory]_vars

\* C7: the retained series never holds more than 300 samples.
C7_Capacity == Len(peopleCountHistory) <= MAX_POINTS

\* C7 witness: the series is full and samples have been evicted.
C7_Witness ==
  Len(peopleCountHistory) = MAX_POINTS /\ Len(arrivals) > MAX_POINTS + 1

\* C8: the retained series is the most recent min(300, n) of the n samples
\* stored in the session, in arrival order.
C8_FifoEviction ==
  /\ Len(peopleCountHistory) = Min2(Len(arrivals), MAX_POINTS)
  /\ \A i \in 1..Len(peopleCountHistory) :
       peopleCountHistory[i] =
         arrivals[Len(arrivals) - Len(peopleCountHistory) + i]

\* C8 witness: two samples were appended to a full series.
C8_Witness ==
  /\ Len(arrivals) = MAX_POINTS + 2
  /\ peopleCountHistory[1] = arrivals[3]

\* C9: an accepted count event less than 50 ms after the last stored
\* sample replaces it (new value, same length); one 200 ms after it is
\* appended and both samples are kept.
C9_Dedup ==
  [][\A d \in AggDeltas, c \in Counts :
       (CountEvent(d, c, TRUE) /\ Len(peopleCountHistory) > 0)
         => LET last == LastOf(peopleCountHistory)
                new == [timestamp |-> now', count |-> c]
                gap == now' - last.timestamp
            IN  /\ gap < JITTER_MS
                     => /\ peopleCountHistory' = DropLast(peopleCountHistory) \o <<new>>
                        /\ Len(peopleCountHistory') = Len(peopleCountHistory)
                /\ gap = 200
                     => /\ Len(peopleCountHistory') >= 2
                        /\ LastOf(peopleCountHistory') = new
                        /\ LastOf(DropLast(peopleCountHistory')) = last]_vars

\* C9 witness: starting from one sample taken at Epoch, an event 49 ms
\* later replaced it and an event 200 ms after that was appended.
C9_Witness ==
  /\ detectionSessionId = 0
  /\ Len(arrivals) = 2
  /\ arrivals[1].timestamp = Epoch + JITTER_MS - 1
  /\ arrivals[2].timestamp = Epoch + JITTER_MS - 1 + 200

\* C10: when detection goes from off to on, the session identifier
\* changes and the series is empty.
C10_NewSessionResets ==
  [][(~isPeopleDetectionEnabled /\ isPeopleDetectionEnabled')
       => /\ detectionSessionId' # detectionSessionId
          /\ peopleCountHistory' = <<>>]_vars

\* C10 witness: a count of 1 was reported and stored in an earlier
\* session, detection has just been enabled again and the series is empty.
C10_Witness ==
  /\ isPeopleDetectionEnabled /\ detectionSessionId = now
  /\ peopleCount = 1 /\ peopleCountHistory = <<>>
  /\ \E l \in LoopIds : loops[l].pc # "none" /\ loops[l].sess # detectionSessionId

\* C11: the toggle handler, run while detection is on, turns it off and
\* leaves the retained series and the session identifier as they were.
C11_DisableKeepsSeries ==
  [][(TogglePeopleDetection /\ isPeopleDetectionEnabled)
       => /\ ~isPeopleDetectionEnabled'
          /\ UNCHANGED <<peopleCountHistory, detectionSessionId>>]_vars

\* C11 witness: detection is off, no loop is left that could still report,
\* and the series still holds a sample of the session that was toggled off.
C11_Witness ==
  /\ ~isPeopleDetectionEnabled /\ pdMounted
  /\ detectionSessionId # 0
  /\ Len(peopleCountHistory) > 0
  /\ \A l \in LoopIds : loops[l].pc = "none"

\* C12: from a state with detection off to a state with detection off, the
\* series gains no sample and no sample of it is replaced (it stays as it
\* was, or is emptied by a change of camera).
C12_NoSampleWhilePaused ==
  [][(~isPeopleDetectionEnabled /\ ~isPeopleDetectionEnabled')
       => peopleCountHistory' \in {peopleCountHistory, <<>>}]_vars

\* C13: no Hls instance that stopped on a fatal network error with HTTP
\* 403 is left alive: the error listener has set the access-denied error
\* and destroyed the instance.
C13_AccessDeniedIsTerminal ==
  \A h \in hlsObjs : h.failed # "denied"

\* C14: the error listener calls hls.startLoad() at most once for an Hls
\* instance.
C14_AtMostOneReload ==
  \A h \in hlsObjs : h.reloads <= 1

\* the raw predictions that are a person with a score above the threshold
Qualifying(raw) ==
  {i \in 1..Len(raw) : raw[i].class = "person" /\ raw[i].score > THRESHOLD_PCT}

\* C15: when an inference resolves, the count reported is the number of
\* raw predictions of class person with a score above 0.5, and the stored
\* detection set and the overlay hold such predictions only, each taken
\* from the raw result.
C15_OnlyPeopleAboveThreshold ==
  [][\A l \in LoopIds, raw \in RawFrames :
       DetectionResult(l, raw)
         => /\ peopleCount' = Cardinality(Qualifying(raw))
            /\ ~loops[l].orphan
                 => /\ Len(detections') = Cardinality(Qualifying(raw))
                    /\ \A d \in Range(detections') \cup Range(canvas') :
                         \E i \in Qualifying(raw) : d = raw[i]]_vars

\* C15 witness: a frame with no qualifying person was processed after a
\* frame that had given a count of 1: nothing is stored or drawn and the
\* count stored last is 0.
C15_Witness ==
  /\ isPeopleDetectionEnabled /\ pdMounted
  /\ peopleCount = 0 /\ detections = <<>> /\ canvas = <<>>
  /\ Len(peopleCountHistory) > 0
  /\ LastOf(peopleCountHistory).count = 0
  /\ \E i \in 1..Len(arrivals) : arrivals[i].count = 1

\* C16: after showOverlay went from off to on with no new detection set
\* since, and with detection enabled, the surface holds exactly the stored
\* detection set: each detection once, in order.
C16_OverlayToggleRedraws ==
  (lastOverlayOp = "show" /\ isPeopleDetectionEnabled /\ pdMounted)
    => canvas = detections

\* C16 witness: a non-empty detection set was redrawn by turning the
\* overlay back on.
C16_Witness ==
  /\ lastOverlayOp = "show" /\ isPeopleDetectionEnabled /\ pdMounted
  /\ Len(detections) > 0 /\ canvas = detections

\* C17: whatever the kind of the source, once it has connected without
\* error the detection component, and with it the tick scheduler, is
\* there to be enabled.
C17_SchedulerForAnySource ==
  (VideoSource # "undefined" /\ error = "none" /\ ~connecting /\ ~loading)
    => pdMounted

\* C18: a load starts on the GPU backend and reaches the CPU backend only
\* from there; a load on the CPU backend never goes on to another attempt;
\* with no model resident, when the fallback of the current load ends
\* either the model is installed and the load error cleared, or the load
\* error is shown and no model is installed; and while no model is
\* installed no detection loop is started.
C18_LoadFallback ==
  [][/\ \A u \in loads' :
          IF \E t \in loads : t.id = u.id
            THEN \A t \in loads :
                   t.id = u.id => (t.stage = "cpu" => u.stage = "cpu")
            ELSE u.stage = "gpu"
     /\ \A t \in loads :
          (/\ t.stage = "cpu" /\ t.isMounted /\ model = 0
           /\ \A u \in loads' : u.id # t.id)
            => \/ model' # 0 /\ ~modelLoadError' /\ ~isLoading'
               \/ /\ model' = 0 /\ modelLoadError' /\ ~isLoading'
                  /\ loops' = loops
     /\ model' = 0
          => \A l \in LoopIds : loops[l].pc = "none" => loops'[l].pc = "none"]_vars

\* C18 witness: detection is enabled, both attempts of its load have
\* failed: the load error is shown, no model is installed, nothing is
\* loading and no loop exists.
C18_Witness ==
  /\ pdMounted /\ isPeopleDetectionEnabled
  /\ model = 0 /\ modelLoadError /\ ~isLoading /\ loads = {}
  /\ \A l \in LoopIds : loops[l].pc = "none"

\* C19: while a model is resident in the component, no step starts a
\* model load.
C19_NoRedundantLoad ==
  [][(model # 0 /\ model' # 0)
       => \A u \in loads' : \E t \in loads : t.id = u.id]_vars

\* C20: every decoder attached to the player, whether created by the
\* source-change path or by a manual retry, has the manifest-parsed and
\* error handlers subscribed.
C20_RetryDispatchesAlike ==
  \A h \in hlsObjs : h.handlers

\* the four states of the connection state machine, read off the flags as
\* the overlays of VideoPlayer read them (VideoPlayer.tsx:285, 294, 302)
Playing == ~connecting /\ ~loading /\ error = "none"

\* C21: the step that enters Playing is a can-play or playing signal of the
\* media loaded for the current source: it clears the loading flag while
\* the element holds that media.
C21_PlayingOnlyAfterCanPlay ==
  [][(~Playing /\ Playing')
       => /\ loading /\ ~loading'
          /\ IsMedia(videoSrc) /\ videoSrc' = videoSrc
          /\ videoSrc = MediaOf(VideoSource)
          /\ ~connecting]_vars

\* C22: an error is never set while the connecting flag is set, so the
\* connecting overlay and the error overlay are never shown together.
C22_NoErrorWhileConnecting == ~(connecting /\ error # "none")

\* C23: a playback-position update is relayed only while the player is
\* Playing a file source (never for the media of a live stream), and the
\* seek-sync effect never moves the element while it holds a live stream.
C23_PositionOnlyForPlayingFile ==
  /\ lastRelay.called =>
       /\ ~lastRelay.connecting /\ ~lastRelay.loading /\ ~lastRelay.failed
       /\ lastRelay.media \notin StreamIds
  /\ lastSeek \notin StreamIds

\* the submissions the form must refuse: no name, no URL, or a URL that is
\* not http:// or https://, then at least one character, then .m3u8 at
\* the end or right before a query string
MustReject(name, url) ==
  \/ name = <<>>
  \/ url = <<>>
  \/ ~\E i \in 1..Len(url) :
        /\ url[1] = "http://" \/ url[1] = "https://"
        /\ i > 2
        /\ url[i] = ".m3u8"
        /\ i < Len(url) => url[i + 1] = "?"

\* C24: a submission with an empty name, an empty URL or a malformed URL
\* sets a validation error, adds no source, leaves the active source and
\* the connection alone, and leaves the form open with its contents.
C24_InvalidSubmissionRejected ==
  [][(HandleSubmit /\ MustReject(streamName, streamUrl))
       => /\ modalError' # ""
          /\ videos' = videos /\ activeVideoId' = activeVideoId
          /\ timers' = timers /\ connecting' = connecting
          /\ hlsObjs' = hlsObjs /\ videoSrc' = videoSrc
          /\ isAddStreamModalOpen'
          /\ streamName' = streamName /\ streamUrl' = streamUrl]_vars

\* a malformed URL (a name is given, the URL is not empty) has been
\* refused: the form is open with the format error and no stream was added
C24_Witness ==
  /\ isAddStreamModalOpen
  /\ modalError = "Please enter a valid HLS URL (must end with .m3u8)"
  /\ ~IsBlank(streamName) /\ ~IsBlank(streamUrl)
  /\ MustReject(streamName, streamUrl)
  /\ Range(videos) \cap StreamIds = {}

\* C25: captureSnapshot returns null whenever the element has no frame to
\* give: a call made while the element holds no media never returns
\* anything else.
C25_NullWithoutFrame ==
  (snapshot.called /\ ~IsMedia(snapshot.media)) => snapshot.result = "null"

\* C26: a failed inference call changes neither the stored detection set,
\* the overlay nor the reported count and series, and leaves its loop
\* waiting for the 500 ms timer, as a successful call does.
C26_FailedInferenceSwallowed ==
  [][InferenceReject
       => /\ UNCHANGED <<detections, canvas, peopleCount, peopleCountHistory,
                         arrivals>>
          /\ \E l \in LoopIds :
               /\ loops[l].pc = "inflight"
               /\ loops'[l].pc = "timer"
               /\ \A k \in LoopIds \ {l} : loops'[k] = loops[k]]_vars

\* the inference call of a loop of the component on screen has failed and
\* the loop waits for its throttle timer
C26_Witness ==
  \E l \in LoopIds :
    /\ loops[l].pc = "timer"
    /\ loops[l].failed
    /\ ~loops[l].orphan

\* C27: the ticks of a loop are strictly sequential.  A loop leaves its
\* inference call only when the call settles, and then waits for the
\* throttle timer; it leaves the timer only when the timer fires, for the
\* next animation frame; and an inference call is issued only from an
\* animation frame or at the start of the loop.  A loop whose call never
\* settles therefore takes no further step.
C27_TicksSequential ==
  [][\A l \in LoopIds :
       /\ (loops[l].pc = "inflight" /\ loops'[l].pc # "inflight")
            => /\ loops'[l].pc = "timer"
               /\ InferenceResolve \/ InferenceReject
       /\ (loops[l].pc = "timer" /\ loops'[l].pc # "timer")
            => /\ loops'[l].pc = "raf"
               /\ LoopTimerFire
       /\ (loops[l].pc # "inflight" /\ loops'[l].pc = "inflight")
            => loops[l].pc \in {"raf", "none"}]_vars

\* the only loop there is, started in the current session, has reported a
\* count and is in a later inference call
C27_Witness ==
  \E l \in LoopIds :
    /\ loops[l].pc = "inflight"
    /\ ~loops[l].orphan
    /\ loops[l].sess = detectionSessionId
    /\ \A k \in LoopIds \ {l} : loops[k].pc = "none"
    /\ isPeopleDetectionEnabled
    /\ arrivals # <<>>

\* a step that starts a detection loop: a step that is not a step of a
\* loop itself and after which a slot holds a loop of the component on
\* screen that it did not hold before
LoopStart ==
  /\ ~(LoopFrame \/ InferenceResolve \/ InferenceReject \/ LoopTimerFire)
  /\ \E l \in LoopIds :
       /\ loops'[l].pc # "none"
       /\ ~loops'[l].orphan
       /\ loops'[l] # loops[l]

\* C28: a detection loop is started only when the source is Playing (not
\* connecting, not loading, no error), detection is enabled and a model is
\* loaded.
C28_LoopStartOnlyWhenPlaying ==
  [][LoopStart
       => /\ ~connecting' /\ ~loading' /\ error' = "none"
          /\ isPeopleDetectionEnabled'
          /\ model' # 0]_vars

\* a loop has been started: it has not taken a step of its own yet and the
\* player is Playing with detection enabled and the model loaded
C28_Witness ==
  /\ Playing /\ isPeopleDetectionEnabled /\ model # 0
  /\ arrivals = <<>>
  /\ \E l \in LoopIds :
       /\ loops[l].pc = "inflight"
       /\ ~loops[l].orphan
       /\ loops[l].sess = detectionSessionId
       /\ requestRef = 0

\* the state the flags stand for, read as the overlays read them: the
\* connecting overlay first, then the error overlay, then the loading one
ConnState(conn, load, err) ==
  IF conn THEN "Connecting"
  ELSE IF err # "none" THEN "Error"
  ELSE IF load THEN "Loading"
  ELSE "Playing"

\* C29: the connection state changes only from Connecting to Loading, from
\* Loading to Playing, from Connecting or Loading to Error, from Error to
\* Connecting, and from any state to Connecting when the source changes.
C29_OnlyListedTransitions ==
  [][LET from == ConnState(connecting, loading, error)
         to == ConnState(connecting', loading', error')
     IN  \/ to = from
         \/ <<from, to>> \in {<<"Connecting", "Loading">>, <<"Loading", "Playing">>,
                               <<"Connecting", "Error">>, <<"Loading", "Error">>,
                               <<"Error", "Connecting">>}
         \/ /\ to = "Connecting"
            /\ CurrentVideoSource(videos', activeVideoId') # VideoSource]_vars

\* C30: an Hls instance attempts at most one in-place recovery from fatal
\* media errors; the next fatal media error ends in Error instead.
C30_AtMostOneRecovery == \A h \in hlsObjs : h.recovers <= 1

\* C31: a fatal error of an Hls instance that is neither a network nor a
\* media error sets the error and its detail and destroys the instance,
\* with no reload and no recovery; a non-fatal error changes nothing.
C31_OtherFatalTearsDown ==
  [][/\ \A h \in hlsObjs, code \in ResponseCodes :
          HlsError(h, "other", code)
            => /\ error' # "none" /\ errorDetails' # "none"
               /\ \A g \in hlsObjs' : g.id # h.id
               /\ \A g \in hlsObjs' : \A f \in hlsObjs :
                    g.id = f.id => g.reloads = f.reloads /\ g.recovers = f.recovers
     /\ HlsNonFatalError => UNCHANGED vars]_vars

\* C32: the error stays set, and the state stays Error, until Retry
\* Connection is clicked or the source changes: no event of the media
\* element or of the decoder clears it or moves the state on.
C32_ErrorUntilRetryOrSourceChange ==
  [][(error # "none" /\ ~RetryClick
        /\ CurrentVideoSource(videos', activeVideoId') = VideoSource)
       => /\ error' # "none"
          /\ ConnState(connecting, loading, error) = "Error"
               => ConnState(connecting', loading', error') = "Error"]_vars

\* the element has signalled can-play and plays while the state is Error
C32_Witness ==
  /\ ConnState(connecting, loading, error) = "Error"
  /\ IsMedia(videoSrc) /\ videoPlaying

C34_DelayElapsesToLoadingOrError ==
  [][(connecting /\ loading /\ error = "none" /\ ~connecting')
       => IF IsHls(VideoSource) /\ hlsSupport = "neither"
            THEN /\ ConnState(connecting', loading', error') = "Error"
                 /\ hlsObjs' \subseteq hlsObjs
                 /\ videoSrc' = videoSrc
            ELSE ConnState(connecting', loading', error') = "Loading"]_vars

\* C35: a model load that completes, with a model or with a failure of
\* either backend, after detection was disabled or the component was
\* unmounted installs no model, leaves the loading and the load-error
\* indication as they were and starts no loop.
C35_LateLoadDiscarded ==
  [][\A t \in loads :
       (/\ LoadSucceed \/ LoadGpuFail \/ LoadCpuFail
        /\ loads' = loads \ {t}
        /\ ~t.isMounted \/ ~pdMounted \/ ~isPeopleDetectionEnabled)
         => UNCHANGED <<model, isLoading, modelLoadError, loops, requestRef>>]_vars

\* C35 witness: the WebGL attempt failed while detection was on, the
\* fallback completed after it was turned off, and its result was dropped:
\* no load is pending, no model is installed, and the loading indication
\* and the error of the first attempt are still there.
C35_Witness ==
  /\ pdMounted /\ ~isPeopleDetectionEnabled
  /\ loads = {} /\ model = 0
  /\ isLoading /\ modelLoadError

\* the chart shows the last min(60, n) samples of data, oldest first: the
\* counts plotted, their labels and the time written on the axis for each
ShowsWindow(chart, data) ==
  LET n == Len(data)
      m == IF n < 60 THEN n ELSE 60
  IN  /\ Len(chart) = m
      /\ \A k \in 1..m :
           /\ chart[k].count = data[n - m + k].count
           /\ chart[k].label = TimeLabel(data[n - m + k].timestamp)
           /\ chart[k].tick = TimeLabel(data[n - m + k].timestamp)

\* a step that puts other data on the chart
Redraw == graph'.chart # graph.chart /\ graph'.chart # <<>>

\* C36: every redraw shows the most recent min(60, n) samples of the
\* series in order; once the chart is there (it is created and drawn when
\* the graph appears or the session changes) it is redrawn by the callback
\* of the 1-second interval only, not by the arrival of a sample; at most
\* one interval is active, and none while detection is paused or the graph
\* is not rendered.
C36_WindowOnInterval ==
  /\ [](/\ Cardinality(graph.intervals) <= 1
        /\ (~isPeopleDetectionEnabled \/ Len(peopleCountHistory) = 0)
             => graph.intervals = {})
  /\ [][/\ Redraw => /\ \/ GraphTick
                         \/ Len(peopleCountHistory) = 0
                         \/ detectionSessionId' # detectionSessionId
                      /\ ShowsWindow(graph'.chart, peopleCountHistory')
        /\ GraphTick => ShowsWindow(graph'.chart, peopleCountHistory)]_vars

\* C37: in the retained series the timestamps never decrease and two
\* neighbours are at least 50 ms apart; an accepted sample exactly 50 ms
\* after the last stored one is appended behind it, and one less than 50 ms
\* after it takes its place with the new timestamp.
C37_SeriesSpacing ==
  /\ [](\A i \in 1..(Len(peopleCountHistory) - 1) :
          peopleCountHistory[i + 1].timestamp
            >= peopleCountHistory[i].timestamp + 50)
  /\ [][\A d \in AggDeltas, c \in Counts :
          (CountEvent(d, c, TRUE) /\ Len(peopleCountHistory) > 0)
            => LET n == Len(peopleCountHistory)
                   gap == now' - peopleCountHistory[n].timestamp
               IN  /\ gap = 50
                        => /\ Len(peopleCountHistory') = Min2(n + 1, MAX_POINTS)
                           /\ LastOf(peopleCountHistory').timestamp = now'
                           /\ LastOf(DropLast(peopleCountHistory'))
                                = peopleCountHistory[n]
                   /\ gap < 50
                        => /\ Len(peopleCountHistory') = n
                           /\ LastOf(peopleCountHistory').timestamp = now'
                           /\ LastOf(peopleCountHistory').count = c]_vars

\* C37 witness: the last two samples of the series are exactly 50 ms
\* apart, and the one before them took the place of an earlier sample.
C37_Witness ==
  LET n == Len(peopleCountHistory)
  IN  /\ n >= 3
      /\ peopleCountHistory[n].timestamp
           = peopleCountHistory[n - 1].timestamp + 50
      /\ peopleCountHistory[n - 1].timestamp = Epoch + JITTER_MS - 1

\* C38: every step that changes the active source leaves detection
\* disabled, the displayed count at 0 and the series empty.
C38_SourceChangeResetsDetection ==
  [][activeVideoId' # activeVideoId
       => /\ ~isPeopleDetectionEnabled'
          /\ peopleCount' = 0
          /\ peopleCountHistory' = <<>>]_vars

\* C39: a step that adds a stream, from the form or from the
\* try-this-stream event, appends one source that was not in the list,
\* keeps the sources that were there, in their order, and makes the new
\* one the active source.
C39_AddStreamAppendsOne ==
  [][(AddStream \/ TryStreamUrl)
       => /\ Len(videos') = Len(videos) + 1
          /\ \A i \in 1..Len(videos) : videos'[i] = videos[i]
          /\ videos'[Len(videos')] \notin Range(videos)
          /\ activeVideoId' = videos'[Len(videos')]]_vars

====
